---- MODULE Spec2Model ----
(***************************************************************************)
(* Model of the products-management application: the Dexie record store    *)
(* (src/lib/db.ts), the page handlers (src/app/page.tsx) and the add/edit  *)
(* form with its product code allocator (src/components/ProductModal.tsx). *)
(*                                                                         *)
(* Strings that the code parses or formats (product codes, the price and   *)
(* quantity text of the form) are sequences of one-character strings.      *)
(* Optional values (id, quantity, currency, image, editingProduct) are     *)
(* sets with at most one element: {} is undefined/null.                    *)
(***************************************************************************)
EXTENDS Integers, Sequences, FiniteSets, TLC

VARIABLES
  store,           \* db.products: set of records, each with its primary key id
  keyGen,          \* key generator of the ++id primary key
  products,        \* Home.products: the list read by the last loadProducts
  showModal,       \* Home.showModal
  editingProduct,  \* Home.editingProduct: {} or {record}
  formData,        \* ProductModal.formData
  imageFile,       \* ProductModal.imageFile: "" is null
  pending,         \* dates of the allocator queries in flight
  last,            \* the save, import, delete or filter change that ran last
                   \* and its alert; "other" after any other handler
  searchQuery,     \* Home.searchQuery: the characters typed, <<>> is ""
  dateFrom,        \* Home.dateFrom: a date or ""
  dateTo,          \* Home.dateTo: a date or ""
  sortOrder,       \* Home.sortOrder
  selectedIds,     \* Home.selectedIds
  filteredProducts,\* Home.filteredProducts: the list the table shows
  download,        \* the file the last export handed to the browser
  imageRun         \* the photo last handed to the image pipeline and what
                   \* the pipeline made of it

vars == <<store, keyGen, products, showModal, editingProduct, formData,
          imageFile, pending, last, searchQuery, dateFrom, dateTo, sortOrder,
          selectedIds, filteredProducts, download, imageRun>>

\* The filter inputs, the selection, the exported file and the pipeline run.
listVars == <<searchQuery, dateFrom, dateTo, sortOrder, selectedIds,
              filteredProducts, download, imageRun>>

-----------------------------------------------------------------------------
(* Bounds *)

\* Adds are disabled once the key generator has passed MaxId.
MaxId == 2

\* Allocator queries complete only while the number they yield is at most
\* MaxCode.
MaxCode == 3

\* The databases the list is opened on hold records under the ids 1..MaxRows.
MaxRows == 3

-----------------------------------------------------------------------------
(* Strings and numbers *)

Digits == <<"0", "1", "2", "3", "4", "5", "6", "7", "8", "9">>

IsDigit(c) == \E i \in 1..10 : Digits[i] = c

DigitVal(c) == (CHOOSE i \in 1..10 : Digits[i] = c) - 1

\* A missing string property: String(undefined) is "undefined".
Undefined == <<"undefined">>

\* JavaScript truthiness of a string-or-undefined value.
Truthy(s) == s # <<>> /\ s # Undefined

NaN == [nan |-> TRUE, val |-> 0]

Num(n) == [nan |-> FALSE, val |-> n]

RECURSIVE DropSpaces(_)
DropSpaces(s) ==
  IF s # <<>> /\ Head(s) = " " THEN DropSpaces(Tail(s)) ELSE s

\* Value of the longest prefix of digits of s, continuing from acc.
RECURSIVE DigitsPrefix(_, _)
DigitsPrefix(s, acc) ==
  IF s # <<>> /\ IsDigit(Head(s))
  THEN DigitsPrefix(Tail(s), 10 * acc + DigitVal(Head(s)))
  ELSE acc

\* parseInt(s): leading blanks are skipped, an optional sign is read, then
\* the longest run of decimal digits; NaN when no digit follows.
parseInt(s) ==
  LET t    == DropSpaces(s)
      neg  == t # <<>> /\ Head(t) = "-"
      sgn  == t # <<>> /\ Head(t) \in {"-", "+"}
      body == IF sgn THEN Tail(t) ELSE t
  IN  IF body = <<>> \/ ~IsDigit(Head(body))
      THEN NaN
      ELSE Num(IF neg THEN 0 - DigitsPrefix(body, 0) ELSE DigitsPrefix(body, 0))

\* x || 0 for a number x: NaN and 0 are falsy.
OrZero(x) == IF x.nan THEN 0 ELSE x.val

RECURSIVE NatToString(_)
NatToString(n) ==
  IF n < 10 THEN <<Digits[n + 1]>>
  ELSE NatToString(n \div 10) \o <<Digits[(n % 10) + 1]>>

\* String(n) / n.toString() for an integer n.
numToString(n) ==
  IF n < 0 THEN <<"-">> \o NatToString(0 - n) ELSE NatToString(n)

\* s.padStart(3, '0')
RECURSIVE padStart3(_)
padStart3(s) == IF Len(s) >= 3 THEN s ELSE padStart3(<<"0">> \o s)

Max(a, b) == IF a >= b THEN a ELSE b

\* The UTF-16 code units of the characters the model uses.
CodeUnit(c) ==
  CASE c = "\"" -> 34 [] c = "," -> 44 [] c = "-" -> 45 [] c = "." -> 46
    [] IsDigit(c) -> 48 + DigitVal(c)
    [] c = "A" -> 65 [] c = "B" -> 66 [] c = "a" -> 97 [] c = "b" -> 98

\* The characters of the names and dates the records and inputs hold.
Chars ==
  [s \in {"", "A", "B", "ab", "A\"B", "JPY", "USD",
          "2024-01-05", "2024-01-06", "2024-03-01"} |->
     CASE s = "" -> <<>>
       [] s = "A" -> <<"A">>
       [] s = "B" -> <<"B">>
       [] s = "ab" -> <<"a", "b">>
       [] s = "A\"B" -> <<"A", "\"", "B">>
       [] s = "JPY" -> <<"J", "P", "Y">>
       [] s = "USD" -> <<"U", "S", "D">>
       [] s = "2024-01-05" -> <<"2", "0", "2", "4", "-", "0", "1", "-", "0", "5">>
       [] s = "2024-01-06" -> <<"2", "0", "2", "4", "-", "0", "1", "-", "0", "6">>
       [] s = "2024-03-01" -> <<"2", "0", "2", "4", "-", "0", "3", "-", "0", "1">>]

\* Base64, the encoding of the bytes of an image in a data URL.
Base64Alphabet ==
  << "A", "B", "C", "D", "E", "F", "G", "H", "I", "J", "K", "L", "M", "N", "O",
     "P", "Q", "R", "S", "T", "U", "V", "W", "X", "Y", "Z", "a", "b", "c", "d",
     "e", "f", "g", "h", "i", "j", "k", "l", "m", "n", "o", "p", "q", "r", "s",
     "t", "u", "v", "w", "x", "y", "z", "0", "1", "2", "3", "4", "5", "6", "7",
     "8", "9", "+", "/" >>

Base64Char(n) == Base64Alphabet[n + 1]

IsBase64Char(c) == \E i \in 1..64 : Base64Alphabet[i] = c

Sextet(c) == (CHOOSE i \in 1..64 : Base64Alphabet[i] = c) - 1

\* The base64 text of a sequence of bytes: three bytes make four
\* characters, a last group of one or two bytes is padded with "=".
RECURSIVE base64Encode(_)
base64Encode(bytes) ==
  IF bytes = <<>> THEN <<>>
  ELSE IF Len(bytes) = 1
  THEN << Base64Char(bytes[1] \div 4), Base64Char((bytes[1] % 4) * 16),
          "=", "=" >>
  ELSE IF Len(bytes) = 2
  THEN << Base64Char(bytes[1] \div 4),
          Base64Char((bytes[1] % 4) * 16 + bytes[2] \div 16),
          Base64Char((bytes[2] % 16) * 4), "=" >>
  ELSE << Base64Char(bytes[1] \div 4),
          Base64Char((bytes[1] % 4) * 16 + bytes[2] \div 16),
          Base64Char((bytes[2] % 16) * 4 + bytes[3] \div 64),
          Base64Char(bytes[3] % 64) >>
         \o base64Encode(SubSeq(bytes, 4, Len(bytes)))

\* A base64 text is groups of four characters of the alphabet; only the
\* last group may end in one or two "=".
isBase64(text) ==
  /\ Len(text) % 4 = 0
  /\ \A i \in 1..Len(text) :
       \/ IsBase64Char(text[i])
       \/ /\ text[i] = "="
          /\ i >= Len(text) - 1
          /\ i = Len(text) - 1 => text[Len(text)] = "="

\* The bytes a base64 text stands for.
RECURSIVE base64Decode(_)
base64Decode(text) ==
  IF text = <<>> THEN <<>>
  ELSE LET s1 == Sextet(text[1])
           s2 == Sextet(text[2])
           b1 == s1 * 4 + s2 \div 16
       IN  IF text[3] = "=" THEN <<b1>>
           ELSE LET s3 == Sextet(text[3])
                    b2 == (s2 % 16) * 16 + s3 \div 4
                IN  IF text[4] = "=" THEN <<b1, b2>>
                    ELSE <<b1, b2, (s3 % 4) * 64 + Sextet(text[4])>>
                           \o base64Decode(SubSeq(text, 5, Len(text)))

-----------------------------------------------------------------------------
(* The record store: Dexie table products, schema '++id, purchasedAt, ...' *)

Ids(st) == {r.id : r \in st}

Get(st, id) == CHOOSE r \in st : r.id = id

WithId(data, id) ==
  [id |-> id, purchasedAt |-> data.purchasedAt, productCode |-> data.productCode,
   name |-> data.name, price |-> data.price, quantity |-> data.quantity,
   currency |-> data.currency, image |-> data.image]

\* add that stores the record without looking for the key in the table.
DbAddUnchecked(st, gen, data, key) ==
  LET id == IF key = {} THEN gen ELSE CHOOSE k \in key : TRUE
  IN  [ok |-> TRUE, store |-> st \cup {WithId(data, id)},
       gen |-> IF id >= gen THEN id + 1 ELSE gen, id |-> id]

\* db.products.add(data) with key {} (generated) or {k} (explicit id):
\* a key that is already present rejects with ConstraintError; an explicit
\* numeric key at or above the generator moves the generator past it.
DbAdd(st, gen, data, key) ==
  LET id == IF key = {} THEN gen ELSE CHOOSE k \in key : TRUE
  IN  IF id \in Ids(st)
      THEN [ok |-> FALSE, store |-> st, gen |-> gen, id |-> id]
      ELSE [ok |-> TRUE, store |-> st \cup {WithId(data, id)},
            gen |-> IF id >= gen THEN id + 1 ELSE gen, id |-> id]

\* update that skips the keys of changes whose value is undefined.
DbUpdateSkipUndefined(st, id, changes) ==
  IF id \in Ids(st)
  THEN LET old == Get(st, id)
           new == [WithId(changes, id) EXCEPT
                     !.quantity = IF changes.quantity = {} THEN old.quantity
                                  ELSE changes.quantity,
                     !.image = IF changes.image = {} THEN old.image
                               ELSE changes.image]
       IN  [count |-> 1, store |-> (st \ {old}) \cup {new}]
  ELSE [count |-> 0, store |-> st]

\* db.products.update(id, changes): resolves with the number of records
\* updated (0 when the key is absent, no rejection). Every key of changes is
\* written into the record; a key whose value is undefined is deleted.
DbUpdate(st, id, changes) ==
  IF id \in Ids(st)
  THEN LET old == Get(st, id)
           new == [id |-> old.id,
                   purchasedAt |-> changes.purchasedAt,
                   productCode |-> changes.productCode,
                   name |-> changes.name,
                   price |-> changes.price,
                   quantity |-> changes.quantity,
                   currency |-> changes.currency,
                   image |-> changes.image]
       IN  [count |-> 1, store |-> (st \ {old}) \cup {new}]
  ELSE [count |-> 0, store |-> st]

\* delete that empties the table when the key is absent.
DbDeleteOrClear(st, id) == IF id \in Ids(st) THEN {r \in st : r.id # id} ELSE {}

\* db.products.delete(id): removes the record, resolves also when absent.
DbDelete(st, id) == {r \in st : r.id # id}

\* db.products.where('purchasedAt').equals(date).toArray()
WhereDate(st, date) == {r \in st : r.purchasedAt = date}

\* db.products.toArray(): the records in primary key order.
RECURSIVE ToArray(_)
ToArray(st) ==
  IF st = {} THEN <<>>
  ELSE LET r == CHOOSE x \in st : \A y \in st : x.id <= y.id
       IN  <<r>> \o ToArray(st \ {r})

-----------------------------------------------------------------------------
(* Inputs: the dates, the texts the user types, the photos, the files *)

\* new Date().toISOString().split('T')[0]
Today == "2024-01-05"

Dates == {"2024-01-05", "2024-01-06"}

\* What the user types into name, price, quantity and currency.
FieldInputs ==
  { [name |-> "A", price |-> <<"1", "5", "0", "0">>, quantity |-> <<"2">>,
     currency |-> "USD"],
    [name |-> "B", price |-> <<"8", "0">>, quantity |-> <<>>,
     currency |-> "JPY"] }

\* The photos the user can attach; the second one does not decode.
ImageFiles == {"photo.png", "corrupt.png"}

\* The image property of an item: its typeof and, of a string, the text up
\* to the first colon, the media type and the base64 body after it.
NoImage == [type |-> "undefined", prefix |-> "", mime |-> "", body |-> <<>>,
            wellFormed |-> FALSE]

DataUrl(mime, body, wf) ==
  [type |-> "string", prefix |-> "data:", mime |-> mime, body |-> body,
   wellFormed |-> wf]

Item(id, date, code, name, price, qty, cur, img) ==
  [id |-> id, purchasedAt |-> date, productCode |-> code, name |-> name,
   price |-> price, quantity |-> qty, currency |-> cur, image |-> img]

ItemA == Item({1}, "2024-01-05", <<"0", "0", "1">>, "A", 80, {}, {"JPY"},
              NoImage)

ItemPhoto == Item({}, "2024-01-06", <<"0", "0", "1">>, "A", 1500, {2}, {"USD"},
                  DataUrl("image/jpeg", <<"/", "9", "j", "/">>, TRUE))

ItemB == Item({2}, "2024-01-05", <<"0", "0", "2">>, "B", 80, {}, {},
              NoImage)

ItemZero == Item({0}, "2024-01-06", <<"0", "0", "1">>, "B", 80, {}, {""},
                 [type |-> "string", prefix |-> "http:", mime |-> "",
                  body |-> <<>>, wellFormed |-> FALSE])

ItemBadImage == Item({3}, "2024-01-06", <<"0", "0", "2">>, "B", 80, {}, {},
                     DataUrl("image/png", <<"*">>, FALSE))

ItemNegCode == Item({}, "2024-01-06", <<"-", "1">>, "B", 80, {}, {"JPY"},
                    NoImage)

ItemNoCode == Item({}, "2024-01-06", Undefined, "B", 80, {}, {"JPY"},
                   [type |-> "number", prefix |-> "", mime |-> "",
                    body |-> <<>>, wellFormed |-> FALSE])

ItemDupId == Item({2}, "2024-01-06", <<"0", "0", "2">>, "B", 80, {}, {},
                  NoImage)

ItemTextCode == Item({}, "2024-01-05", <<"2", "a">>, "B", 80, {}, {"JPY"},
                     NoImage)

\* The files offered to the import: what JSON.parse makes of the text.
ImportFiles ==
  << [json |-> "object",  items |-> <<>>],
     [json |-> "invalid", items |-> <<>>],
     [json |-> "array",   items |-> <<>>],
     [json |-> "array",   items |-> <<ItemA>>],
     [json |-> "array",   items |-> <<ItemA, ItemZero>>],
     [json |-> "array",   items |-> <<ItemB, ItemDupId>>],
     [json |-> "array",   items |-> <<ItemB, ItemBadImage, ItemA>>],
     [json |-> "array",   items |-> <<ItemNegCode>>],
     [json |-> "array",   items |-> <<ItemNoCode>>],
     [json |-> "array",   items |-> <<ItemTextCode>>],
     [json |-> "array",   items |-> <<ItemPhoto>>],
     [json |-> "array",   items |-> <<ItemPhoto, ItemZero>>],
     [json |-> "array",   items |-> <<ItemNoCode, ItemB>>] >>

-----------------------------------------------------------------------------
(* Alerts (the messages are Japanese in the source) *)

NoAlert == ""
AlertSaveFailed == "save failed"            \* ProductModal.tsx:160
AlertInvalidJson == "invalid JSON format"   \* page.tsx:263
AlertImportDone == "import completed"       \* page.tsx:321
AlertImportFailed == "import failed"        \* page.tsx:324
AlertDeleteFailed == "delete failed"        \* page.tsx:161
AlertLoadFailed == "load failed"            \* page.tsx:52

Last(op, alert) == [op |-> op, alert |-> alert]

-----------------------------------------------------------------------------
(* ProductModal: the product code allocator and the form *)

\* sameDateProducts.reduce((max, p) =>
\*   Math.max(max, parseInt(p.productCode) || 0), 0)
RECURSIVE reduceMaxCode(_, _)
reduceMaxCode(arr, max) ==
  IF arr = <<>> THEN max
  ELSE reduceMaxCode(Tail(arr),
                     Max(max, OrZero(parseInt(Head(arr).productCode))))

\* nextCode numbering by the count of the date's records, not by their codes.
nextCodeByCount(st, date) ==
  padStart3(numToString(Cardinality(WhereDate(st, date)) + 1))

\* The code generateProductCode(date) writes into the form.
nextCode(st, date) ==
  LET sameDateProducts == ToArray(WhereDate(st, date))
  IN  IF Len(sameDateProducts) = 0
      THEN <<"0", "0", "1">>
      ELSE padStart3(numToString(reduceMaxCode(sameDateProducts, 0) + 1))

\* The form after the reset of the mount/close effect and of resetForm.
BlankForm ==
  [purchasedAt |-> Today, productCode |-> <<>>, name |-> "", price |-> <<>>,
   quantity |-> <<>>, currency |-> "JPY"]

\* The form the edit branch of the effect loads from the product.
LoadForm(p) ==
  [purchasedAt |-> p.purchasedAt,
   productCode |-> p.productCode,
   name |-> p.name,
   price |-> numToString(p.price),
   quantity |-> IF p.quantity = {} THEN <<>>
                ELSE LET t == numToString(CHOOSE q \in p.quantity : TRUE)
                     IN  IF Truthy(t) THEN t ELSE <<>>,
   currency |-> IF p.currency = "" THEN "JPY" ELSE p.currency]

\* A file handed to the pipeline: its media type and the extension of its
\* name as the browser reports them, the size of the picture in it, and
\* faults, the steps at which the browser fails on it ("heic": heic2any
\* rejects, "read": FileReader errors, "decode": the Image errors,
\* "context": getContext gives null, "encode": toBlob gives null,
\* "normalize": blob.arrayBuffer() rejects).
ImageFile(type, ext, width, height, faults) ==
  [type |-> type, ext |-> ext, width |-> width, height |-> height,
   faults |-> faults]

\* The files behind the names of the photos the user attaches.
FileOf(name) ==
  CASE name = "photo.png" -> ImageFile("image/png", "png", 1600, 1200, {})
    [] name = "corrupt.png" -> ImageFile("image/png", "png", 1600, 1200, {"decode"})
    [] name = "unreadable.png" -> ImageFile("image/png", "png", 1600, 1200, {"read"})
    [] name = "sliver.png" -> ImageFile("image/png", "png", 2401, 1, {})
    [] name = "photo.heic" -> ImageFile("", "heic", 4000, 3000, {})
    [] name = "broken.heic" -> ImageFile("image/heic", "heic", 4000, 3000, {"heic"})

\* isHeicFile(file) on the lower-cased type and name.
isHeicFile(file) ==
  \/ file.type \in {"image/heic", "image/heif"}
  \/ file.ext \in {"heic", "heif"}

\* blob.arrayBuffer(): the bytes of the blob, one by one.
arrayBuffer(blob) == [i \in 1..Len(blob.bytes) |-> blob.bytes[i]]

\* new Blob([buffer], { type }): the bytes of the part under that type.
NewBlob(buffer, type) == [bytes |-> buffer, type |-> type]

\* A normalization that builds the blob without its type.
normalizeBlobUntyped(blob) == NewBlob(arrayBuffer(blob), "")

\* normalizeBlobForIndexedDB(blob)
normalizeBlobForIndexedDB(blob) == NewBlob(arrayBuffer(blob), blob.type)

\* The JPEG the converter and the encoder write (its bytes stand for any).
Jpeg == [bytes |-> <<255, 216, 255, 224>>, type |-> "image/jpeg"]

MAX_SIZE == 1200

\* a / b as JavaScript computes it on whole numbers: the exact quotient.
Ratio(a, b) == [num |-> a, den |-> b]

\* A resize that scales landscape pictures only.
targetSizeLandscapeOnly(width, height) ==
  IF width > height /\ width > MAX_SIZE
  THEN [width |-> Ratio(MAX_SIZE, 1), height |-> Ratio(height * MAX_SIZE, width)]
  ELSE [width |-> Ratio(width, 1), height |-> Ratio(height, 1)]

\* The width and height computed in img.onload.
targetSize(width, height) ==
  IF width > height /\ width > MAX_SIZE
  THEN [width |-> Ratio(MAX_SIZE, 1), height |-> Ratio(height * MAX_SIZE, width)]
  ELSE IF height > MAX_SIZE
  THEN [width |-> Ratio(width * MAX_SIZE, height), height |-> Ratio(MAX_SIZE, 1)]
  ELSE [width |-> Ratio(width, 1), height |-> Ratio(height, 1)]

\* canvas.width = x: the number is truncated to an unsigned long.
canvasSize(x) == x.num \div x.den

\* The messages of the errors the pipeline rejects with (console only).
PipelineMessage(mode) ==
  CASE mode = "heic" -> "HEIC conversion failed"
    [] mode = "read" -> "file read failed, the file may be damaged"
    [] mode = "decode" -> "image load failed, check the format"
    [] mode = "context" -> "Canvas context not available"
    [] mode = "encode" -> "image compression failed, try another image"
    [] mode = "normalize" -> "image normalization failed"

\* A rejected run: the steps done before the failing one, its mode and the
\* size of the canvas (0 by 0 when none was made).
Rejected(steps, mode, w, h) ==
  [ok |-> FALSE, blob |-> {}, steps |-> steps, mode |-> mode,
   message |-> PipelineMessage(mode), width |-> w, height |-> h]

\* resizeAndCompressImage(file) step by step: convertHeicToJpeg with its
\* normalization for a HEIC file, readAsDataURL, the Image load, the target
\* size and the canvas, getContext, the orientation and drawImage, toBlob
\* (null for a canvas without pixels), the normalization of the result.
processImage(file) ==
  LET heic == isHeicFile(file)
      converted == IF heic THEN <<"heic", "normalize">> ELSE <<>>
      size == targetSize(file.width, file.height)
      w == canvasSize(size.width)
      h == canvasSize(size.height)
  IN  IF heic /\ file.faults \cap {"heic", "normalize"} # {}
      THEN Rejected(<<>>, "heic", 0, 0)
      ELSE IF "read" \in file.faults
      THEN Rejected(converted, "read", 0, 0)
      ELSE IF "decode" \in file.faults
      THEN Rejected(converted \o <<"read">>, "decode", 0, 0)
      ELSE IF "context" \in file.faults
      THEN Rejected(converted \o <<"read", "decode", "resize">>, "context", w, h)
      ELSE IF "encode" \in file.faults \/ w = 0 \/ h = 0
      THEN Rejected(converted \o <<"read", "decode", "resize", "orientation">>,
                    "encode", w, h)
      ELSE IF "normalize" \in file.faults
      THEN Rejected(converted \o <<"read", "decode", "resize", "orientation",
                                   "encode">>, "normalize", w, h)
      ELSE [ok |-> TRUE, blob |-> {normalizeBlobForIndexedDB(Jpeg)},
            steps |-> converted \o <<"read", "decode", "resize", "orientation",
                                     "encode", "normalize">>,
            mode |-> "", message |-> "", width |-> w, height |-> h]

\* resizeAndCompressImage(file) on the photo of that name: the stored JPEG,
\* or a rejection.
resizeAndCompressImage(file) == processImage(FileOf(file))

\* parseFloat(s) on the whole-number texts of FieldInputs and LoadForm.
parseFloat(s) == parseInt(s)

\* formData.productCode ? String(parseInt(...) || 0).padStart(3, '0') : '001'
normalizedProductCode(code) ==
  IF Truthy(code) THEN padStart3(numToString(OrZero(parseInt(code))))
  ELSE <<"0", "0", "1">>

\* The object handleSubmit passes to onSave.
SubmitData(form, file, prod) ==
  [purchasedAt |-> form.purchasedAt,
   productCode |-> normalizedProductCode(form.productCode),
   name |-> form.name,
   price |-> parseFloat(form.price).val,
   quantity |-> IF form.quantity # <<>> THEN {parseInt(form.quantity).val}
                ELSE {},
   currency |-> form.currency,
   image |-> IF file # "" THEN resizeAndCompressImage(file).blob
             ELSE IF prod # {} THEN (CHOOSE p \in prod : TRUE).image
             ELSE {}]

-----------------------------------------------------------------------------
(* Home: the JSON import *)

\* A productData that decodes every string image.
productDataAnyString(item) ==
  [purchasedAt |-> item.purchasedAt,
   productCode |-> item.productCode,
   name |-> item.name,
   price |-> item.price,
   quantity |-> item.quantity,
   currency |-> IF item.currency = {} \/ item.currency = {""} THEN "JPY"
                ELSE CHOOSE c \in item.currency : TRUE,
   image |-> IF item.image.type = "string"
             THEN {[bytes |-> base64Decode(item.image.body),
                    type |-> item.image.mime]}
             ELSE {}]

\* The productData built from one item of the imported array.
productData(item) ==
  [purchasedAt |-> item.purchasedAt,
   productCode |-> item.productCode,
   name |-> item.name,
   price |-> item.price,
   quantity |-> item.quantity,
   currency |-> IF item.currency = {} \/ item.currency = {""} THEN "JPY"
                ELSE CHOOSE c \in item.currency : TRUE,
   image |-> IF item.image.type = "string" /\ item.image.prefix = "data:"
             THEN {[bytes |-> base64Decode(item.image.body),
                    type |-> item.image.mime]}
             ELSE {}]

\* fetch(item.image) rejects on a data URL it cannot decode.
fetchFails(item) ==
  /\ item.image.type = "string"
  /\ item.image.prefix = "data:"
  /\ ~(item.image.wellFormed /\ isBase64(item.image.body))

\* The item's id as the key in both modes.
importKeyAnyMode(item, mode) ==
  IF item.id # {} /\ item.id # {0} THEN item.id ELSE {}

\* The key of the add: the item's id in overwrite mode when it is truthy.
importKey(item, mode) ==
  IF mode /\ item.id # {} /\ item.id # {0} THEN item.id ELSE {}

\* for (const item of importData) { ... await db.products.add(...) }:
\* the first rejection leaves the loop; n counts the items added.
RECURSIVE importLoop(_, _, _, _, _)
importLoop(st, gen, items, mode, n) ==
  IF items = <<>> THEN [ok |-> TRUE, store |-> st, gen |-> gen, n |-> n]
  ELSE IF fetchFails(Head(items))
  THEN [ok |-> FALSE, store |-> st, gen |-> gen, n |-> n]
  ELSE LET res == DbAdd(st, gen, productData(Head(items)),
                        importKey(Head(items), mode))
       IN  IF res.ok
           THEN importLoop(res.store, res.gen, Tail(items), mode, n + 1)
           ELSE [ok |-> FALSE, store |-> st, gen |-> gen, n |-> n]

\* An import that restores the store it started from when an add rejects.
importRunRollback(st, gen, items, mode) ==
  LET run == importLoop(IF mode THEN {} ELSE st, gen, items, mode, 0)
  IN  IF run.ok THEN run ELSE [run EXCEPT !.store = st]

\* handleImportJSON from the confirm() on: clear in overwrite mode, the loop.
importRun(st, gen, items, mode) ==
  importLoop(IF mode THEN {} ELSE st, gen, items, mode, 0)

-----------------------------------------------------------------------------
(* Home: the JSON and CSV exports *)

\* blobToDataUrl(blob): FileReader.readAsDataURL gives
\* "data:<type>;base64,<base64 of the bytes>".
blobToDataUrl(blob) ==
  DataUrl(IF blob.type = "" THEN "application/octet-stream" ELSE blob.type,
          base64Encode(blob.bytes), TRUE)

\* An export object that leaves the image out.
exportItemWithoutImage(product) ==
  Item({product.id}, product.purchasedAt, product.productCode, product.name,
       product.price, product.quantity,
       {IF product.currency = "" THEN "JPY" ELSE product.currency}, NoImage)

\* The object handleExportJSON builds from a record, as JSON.stringify
\* writes it and JSON.parse reads it back: a key whose value is undefined
\* is left out.
exportItem(product) ==
  Item({product.id}, product.purchasedAt, product.productCode, product.name,
       product.price, product.quantity,
       {IF product.currency = "" THEN "JPY" ELSE product.currency},
       IF product.image # {}
       THEN blobToDataUrl(CHOOSE b \in product.image : TRUE)
       ELSE NoImage)

\* exportData: one object per record of db.products.toArray().
exportData(st) ==
  LET allProducts == ToArray(st)
  IN  [i \in 1..Len(allProducts) |-> exportItem(allProducts[i])]

\* The locales of the browsers the page runs in, by the separator their
\* number format puts between groups of three digits.
Locales == {"ja-JP", "de-DE"}

GroupSeparator(locale) == IF locale = "de-DE" THEN "." ELSE ","

RECURSIVE groupDigits(_, _)
groupDigits(digits, sep) ==
  IF Len(digits) <= 3 THEN digits
  ELSE groupDigits(SubSeq(digits, 1, Len(digits) - 3), sep)
         \o <<sep>> \o SubSeq(digits, Len(digits) - 2, Len(digits))

\* price.toLocaleString() of a whole, non-negative price.
toLocaleString(n, locale) ==
  groupDigits(NatToString(n), GroupSeparator(locale))

\* A replace that leaves the quotes of the name as they are.
escapeQuotesNone(s) == s

\* name.replace(/"/g, '""')
RECURSIVE escapeQuotes(_)
escapeQuotes(s) ==
  IF s = <<>> THEN <<>>
  ELSE (IF Head(s) = "\"" THEN <<"\"", "\"">> ELSE <<Head(s)>>)
         \o escapeQuotes(Tail(s))

\* cells.join(sep)
RECURSIVE join(_, _)
join(cells, sep) ==
  IF cells = <<>> THEN <<>>
  ELSE IF Len(cells) = 1 THEN cells[1]
  ELSE cells[1] \o <<sep>> \o join(Tail(cells), sep)

\* The cells of the row handleExportCSV builds from a record.
csvCells(product, locale) ==
  << Chars[product.purchasedAt],
     product.productCode,
     <<"\"">> \o escapeQuotes(Chars[product.name]) \o <<"\"">>,
     IF product.quantity = {} \/ product.quantity = {0} THEN <<>>
     ELSE numToString(CHOOSE q \in product.quantity : TRUE),
     <<"\"">> \o toLocaleString(product.price, locale) \o <<"\"">>,
     Chars[IF product.currency = "" THEN "JPY" ELSE product.currency] >>

\* The header cells: purchase date, product code, name, quantity, price,
\* currency (Japanese in the source), each as one symbol.
CsvHeaders ==
  << <<"[purchase date]">>, <<"[product code]">>, <<"[name]">>,
     <<"[quantity]">>, <<"[price]">>, <<"[currency]">> >>

\* bom + csvContent: the characters of the file.
csvText(st, locale) ==
  LET allProducts == ToArray(st)
      rows == [i \in 1..Len(allProducts) |->
                 join(csvCells(allProducts[i], locale), ",")]
  IN  <<"[BOM]">> \o join(<<join(CsvHeaders, ",")>> \o rows, "\n")

-----------------------------------------------------------------------------
(* Home: the filter effect (search, date range, sort) *)

\* s.toLowerCase()
toLowerCase(s) ==
  [i \in 1..Len(s) |-> CASE s[i] = "A" -> "a" [] s[i] = "B" -> "b"
                          [] OTHER -> s[i]]

\* s.includes(q)
includes(s, q) ==
  \E i \in 0..(Len(s) - Len(q)) : SubSeq(s, i + 1, i + Len(q)) = q

\* The order of two strings by their code units: -1, 0 or 1, decided at
\* the first position where they differ. It is the order of a < b on
\* strings and of a.localeCompare(b) on ISO dates.
compareStrings(a, b) ==
  IF a = b THEN 0
  ELSE LET n == IF Len(a) < Len(b) THEN Len(a) ELSE Len(b)
           differ == {i \in 1..n : a[i] # b[i]}
       IN  IF differ = {} THEN (IF Len(a) < Len(b) THEN 0 - 1 ELSE 1)
           ELSE LET k == CHOOSE i \in differ : \A j \in differ : i <= j
                IN  IF CodeUnit(a[k]) < CodeUnit(b[k]) THEN 0 - 1 ELSE 1

\* A filter whose start date is an exclusive bound.
filterStepAfterStart(list, query, from, to) ==
  LET q == toLowerCase(query)
      matches(p) == \/ includes(toLowerCase(p.productCode), q)
                    \/ includes(toLowerCase(Chars[p.name]), q)
      after(p) == compareStrings(Chars[p.purchasedAt], Chars[from]) > 0
      notAfter(p) == compareStrings(Chars[p.purchasedAt], Chars[to]) <= 0
      searched == IF query # <<>> THEN SelectSeq(list, matches) ELSE list
      fromDate == IF from # "" THEN SelectSeq(searched, after) ELSE searched
  IN  IF to # "" THEN SelectSeq(fromDate, notAfter) ELSE fromDate

\* The search and the two date filters of the effect; SelectSeq is
\* Array.prototype.filter.
filterStep(list, query, from, to) ==
  LET q == toLowerCase(query)
      matches(p) == \/ includes(toLowerCase(p.productCode), q)
                    \/ includes(toLowerCase(Chars[p.name]), q)
      notBefore(p) == compareStrings(Chars[p.purchasedAt], Chars[from]) >= 0
      notAfter(p) == compareStrings(Chars[p.purchasedAt], Chars[to]) <= 0
      searched == IF query # <<>> THEN SelectSeq(list, matches) ELSE list
      fromDate == IF from # "" THEN SelectSeq(searched, notBefore) ELSE searched
  IN  IF to # "" THEN SelectSeq(fromDate, notAfter) ELSE fromDate

SortOrders == {"purchasedAtDesc", "priceAsc", "priceDesc"}

\* The compare function handed to sort.
compareFn(a, b, order) ==
  CASE order = "purchasedAtDesc" ->
         compareStrings(Chars[b.purchasedAt], Chars[a.purchasedAt])
    [] order = "priceAsc" -> a.price - b.price
    [] order = "priceDesc" -> b.price - a.price
    [] OTHER -> 0

\* x put before the first element that compares after it or equal to it.
RECURSIVE insertBeforeTies(_, _, _)
insertBeforeTies(sorted, x, order) ==
  IF sorted = <<>> THEN <<x>>
  ELSE IF compareFn(Head(sorted), x, order) >= 0 THEN <<x>> \o sorted
  ELSE <<Head(sorted)>> \o insertBeforeTies(Tail(sorted), x, order)

\* x put into a sorted list before the first element that compares after it.
RECURSIVE insertSorted(_, _, _)
insertSorted(sorted, x, order) ==
  IF sorted = <<>> THEN <<x>>
  ELSE IF compareFn(Head(sorted), x, order) > 0 THEN <<x>> \o sorted
  ELSE <<Head(sorted)>> \o insertSorted(Tail(sorted), x, order)

\* filtered.sort(compareFn): Array.prototype.sort is stable.
RECURSIVE sortStep(_, _)
sortStep(list, order) ==
  IF list = <<>> THEN <<>>
  ELSE insertSorted(sortStep(SubSeq(list, 1, Len(list) - 1), order),
                    list[Len(list)], order)

\* The list the effect hands to setFilteredProducts.
apply(list, query, from, to, order) ==
  sortStep(filterStep(list, query, from, to), order)

\* The effect after loadProducts has set a new products array: the
\* selection is cleared and the list filtered and sorted again.
FilterEffect ==
  /\ selectedIds' = {}
  /\ filteredProducts' = apply(products', searchQuery, dateFrom, dateTo, sortOrder)
  /\ UNCHANGED <<searchQuery, dateFrom, dateTo, sortOrder, download,
                 imageRun>>

-----------------------------------------------------------------------------
(* The state after the page and the form have mounted on an empty database *)

\* No export has run yet.
NoDownload == [kind |-> "none", items |-> <<>>, text |-> <<>>]

\* No photo has been handed to the pipeline.
NoRun == [file |-> {}, result |-> {}]

Init ==
  /\ store = {}
  /\ keyGen = 1
  /\ products = <<>>
  /\ showModal = FALSE
  /\ editingProduct = {}
  /\ formData = BlankForm
  /\ imageFile = ""
  /\ pending = {Today}
  /\ last = Last("other", NoAlert)
  /\ searchQuery = <<>>
  /\ dateFrom = ""
  /\ dateTo = ""
  /\ sortOrder = "purchasedAtDesc"
  /\ selectedIds = {}
  /\ filteredProducts = <<>>
  /\ download = NoDownload
  /\ imageRun = NoRun

-----------------------------------------------------------------------------
(* Home: opening and closing the form *)

\* handleAddNew, then the effect of ProductModal on the change of show.
handleAddNew ==
  /\ ~showModal
  /\ editingProduct' = {}
  /\ showModal' = TRUE
  /\ formData' = BlankForm
  /\ imageFile' = ""
  /\ pending' = pending \cup {Today}
  /\ last' = Last("other", NoAlert)
  /\ UNCHANGED <<store, keyGen, products>>
  /\ UNCHANGED listVars

\* handleEdit(product) on a row of the table, then the effect loading the
\* form.
handleEdit(i) ==
  /\ ~showModal
  /\ i \in 1..Len(filteredProducts)
  /\ editingProduct' = {filteredProducts[i]}
  /\ showModal' = TRUE
  /\ formData' = LoadForm(filteredProducts[i])
  /\ last' = Last("other", NoAlert)
  /\ UNCHANGED <<store, keyGen, products, imageFile, pending>>
  /\ UNCHANGED listVars

\* The queries the effects issue when the form closes: the reset effect asks
\* for today; the date effect runs with the form of the closing render when
\* the product prop changes to undefined.
closeQueries == {Today} \cup (IF editingProduct # {} THEN {formData.purchasedAt} ELSE {})

\* handleCloseModal (onHide), then the effects of ProductModal.
handleCloseModal ==
  /\ showModal
  /\ showModal' = FALSE
  /\ editingProduct' = {}
  /\ formData' = BlankForm
  /\ imageFile' = ""
  /\ pending' = pending \cup closeQueries
  /\ last' = Last("other", NoAlert)
  /\ UNCHANGED <<store, keyGen, products>>
  /\ UNCHANGED listVars

-----------------------------------------------------------------------------
(* ProductModal: typing, the allocator query, submit *)

\* onChange of the date input, then the date effect.
changeDate(d) ==
  /\ showModal
  /\ d # formData.purchasedAt
  /\ formData' = [formData EXCEPT !.purchasedAt = d]
  /\ pending' = IF editingProduct = {} THEN pending \cup {d} ELSE pending
  /\ last' = Last("other", NoAlert)
  /\ UNCHANGED <<store, keyGen, products, showModal, editingProduct, imageFile>>
  /\ UNCHANGED listVars

\* A continuation that drops the response of a query for a date the form no
\* longer shows.
generateProductCodeLatestOnly(date) ==
  /\ date \in pending
  /\ reduceMaxCode(ToArray(WhereDate(store, date)), 0) < MaxCode
  /\ pending' = pending \ {date}
  /\ formData' = IF date = formData.purchasedAt
                 THEN [formData EXCEPT !.productCode = nextCode(store, date)]
                 ELSE formData
  /\ last' = Last("other", NoAlert)
  /\ UNCHANGED <<store, keyGen, products, showModal, editingProduct, imageFile>>
  /\ UNCHANGED listVars

\* The continuation of generateProductCode(date) after the store query: it
\* runs whatever the form shows by then (the product check is made at the
\* call only).
generateProductCode(date) ==
  /\ date \in pending
  /\ reduceMaxCode(ToArray(WhereDate(store, date)), 0) < MaxCode
  /\ pending' = pending \ {date}
  /\ formData' = [formData EXCEPT !.productCode = nextCode(store, date)]
  /\ last' = Last("other", NoAlert)
  /\ UNCHANGED <<store, keyGen, products, showModal, editingProduct, imageFile>>
  /\ UNCHANGED listVars

\* handleSave(productData): update under editingProduct.id when it is truthy,
\* add otherwise; a rejection of the store call is thrown on to the caller.
handleSave(st, gen, editing, data) ==
  IF editing # {} /\ (CHOOSE p \in editing : TRUE).id # 0
  THEN [ok |-> TRUE,
        store |-> DbUpdate(st, (CHOOSE p \in editing : TRUE).id, data).store,
        gen |-> gen]
  ELSE LET res == DbAdd(st, gen, data, {})
       IN  [ok |-> res.ok, store |-> res.store, gen |-> res.gen]

SubmitOp == IF editingProduct # {} THEN "submitEdit" ELSE "submitAdd"

\* The name, price, quantity and currency texts of a form.
Fields(form) ==
  [name |-> form.name, price |-> form.price, quantity |-> form.quantity,
   currency |-> form.currency]

\* The form after the onChange handlers have stored the typed texts.
typedForm(form, in) ==
  [form EXCEPT !.name = in.name, !.price = in.price,
               !.quantity = in.quantity, !.currency = in.currency]

\* A submit that saves the record without image when the pipeline rejects.
handleSubmitWithoutImage(in, file) ==
  /\ showModal
  /\ in.name # "" /\ in.price # <<>>
  /\ editingProduct = {} => keyGen <= MaxId
  /\ LET form == typedForm(formData, in)
         imageOk == TRUE
         saved == handleSave(store, keyGen, editingProduct,
                             SubmitData(form, file, editingProduct))
     IN  IF imageOk /\ saved.ok
         THEN /\ store' = saved.store
              /\ keyGen' = saved.gen
              /\ products' = ToArray(saved.store)
              /\ editingProduct' = {}
              /\ showModal' = FALSE
              /\ formData' = BlankForm
              /\ imageFile' = ""
              /\ pending' = pending \cup {Today}
              /\ last' = Last(SubmitOp, NoAlert)
              /\ FilterEffect
         ELSE /\ formData' = form
              /\ imageFile' = file
              /\ last' = Last(SubmitOp, AlertSaveFailed)
              /\ UNCHANGED <<store, keyGen, products, showModal,
                             editingProduct, pending>>
              /\ UNCHANGED listVars

\* The user types in (the onChange handlers of name, quantity, currency and
\* price), chooses file (handleImageChange; "" keeps none chosen) and
\* submits. handleSubmit: the image pipeline, the normalized code, onSave
\* (handleSave with its loadProducts), resetForm, onHide and the effects of
\* the close. The catch branch alerts and leaves the form open as typed.
handleSubmit(in, file) ==
  /\ showModal
  /\ in.name # "" /\ in.price # <<>>
  /\ editingProduct = {} => keyGen <= MaxId
  /\ LET form == typedForm(formData, in)
         imageOk == file = "" \/ resizeAndCompressImage(file).ok
         saved == handleSave(store, keyGen, editingProduct,
                             SubmitData(form, file, editingProduct))
     IN  IF imageOk /\ saved.ok
         THEN /\ store' = saved.store
              /\ keyGen' = saved.gen
              /\ products' = ToArray(saved.store)
              /\ editingProduct' = {}
              /\ showModal' = FALSE
              /\ formData' = BlankForm
              /\ imageFile' = ""
              /\ pending' = pending \cup {Today}
              /\ last' = Last(SubmitOp, NoAlert)
              /\ FilterEffect
         ELSE /\ formData' = form
              /\ imageFile' = file
              /\ last' = Last(SubmitOp, AlertSaveFailed)
              /\ UNCHANGED <<store, keyGen, products, showModal,
                             editingProduct, pending>>
              /\ UNCHANGED listVars

-----------------------------------------------------------------------------
(* Home: delete and import *)

\* handleDelete(id) from a row of the table: the delete, the id taken out
\* of the selection, loadProducts and the filter effect.
handleDelete(i) ==
  /\ ~showModal
  /\ i \in 1..Len(filteredProducts)
  /\ store' = DbDelete(store, filteredProducts[i].id)
  /\ products' = ToArray(store')
  /\ last' = Last("delete", NoAlert)
  /\ FilterEffect
  /\ UNCHANGED <<keyGen, showModal, editingProduct, formData, imageFile,
                 pending>>

\* handleDelete(id) when the toArray of its loadProducts rejects: the delete
\* has gone through and the id has left the selection; the catch of
\* loadProducts alerts and returns, setProducts is not called, so the filter
\* effect does not run, and handleDelete sees no error.
handleDeleteLoadRejected(i) ==
  /\ ~showModal
  /\ i \in 1..Len(filteredProducts)
  /\ store' = DbDelete(store, filteredProducts[i].id)
  /\ selectedIds' = selectedIds \ {filteredProducts[i].id}
  /\ last' = Last("delete", AlertLoadFailed)
  /\ UNCHANGED <<keyGen, products, showModal, editingProduct, formData,
                 imageFile, pending, searchQuery, dateFrom, dateTo, sortOrder,
                 filteredProducts, download, imageRun>>

\* A check that lets every parsed value through.
isArrayAlways(file) == TRUE

\* Array.isArray(importData)
isArray(file) == file.json = "array"

\* The body of handleImportJSON on what JSON.parse makes of the file's
\* text; the user answers the confirm() with mode (TRUE: overwrite, FALSE:
\* append).
importFile(file, mode) ==
  /\ ~showModal
  /\ LET run == importRun(store, keyGen, file.items, mode)
     IN  CASE file.json = "invalid" ->
                \* JSON.parse throws
                /\ ~mode
                /\ last' = Last("import", AlertImportFailed)
                /\ UNCHANGED <<store, keyGen, products>>
                /\ UNCHANGED listVars
           [] file.json # "invalid" /\ ~isArray(file) ->
                /\ ~mode
                /\ last' = Last("import", AlertInvalidJson)
                /\ UNCHANGED <<store, keyGen, products>>
                /\ UNCHANGED listVars
           [] file.json # "invalid" /\ isArray(file) ->
                /\ run.gen <= MaxId + 1
                /\ store' = run.store
                /\ keyGen' = run.gen
                /\ last' = Last("import", IF run.ok THEN AlertImportDone
                                          ELSE AlertImportFailed)
                /\ IF run.ok
                   THEN products' = ToArray(run.store) /\ FilterEffect
                   ELSE UNCHANGED products /\ UNCHANGED listVars
  /\ UNCHANGED <<showModal, editingProduct, formData, imageFile, pending>>

\* handleImportJSON on one of the files the user can pick.
handleImportJSON(f, mode) ==
  /\ f \in 1..Len(ImportFiles)
  /\ importFile(ImportFiles[f], mode)

-----------------------------------------------------------------------------
(* Home: the filter inputs, the selection and the bulk delete *)

\* A filter effect that leaves the selection as it is.
filterEffectKeepingSelection(query, from, to, order) ==
  /\ selectedIds' = selectedIds
  /\ filteredProducts' = apply(products, query, from, to, order)
  /\ last' = Last("filter", NoAlert)
  /\ UNCHANGED <<store, keyGen, products, showModal, editingProduct, formData,
                 imageFile, pending, download, imageRun>>

\* The filter effect after one of its filter inputs has changed.
filterEffect(query, from, to, order) ==
  /\ selectedIds' = {}
  /\ filteredProducts' = apply(products, query, from, to, order)
  /\ last' = Last("filter", NoAlert)
  /\ UNCHANGED <<store, keyGen, products, showModal, editingProduct, formData,
                 imageFile, pending, download, imageRun>>

\* onChange of the search input.
setSearchQuery(q) ==
  /\ ~showModal
  /\ q # searchQuery
  /\ searchQuery' = q
  /\ filterEffect(q, dateFrom, dateTo, sortOrder)
  /\ UNCHANGED <<dateFrom, dateTo, sortOrder>>

\* onChange of the start date input.
setDateFrom(d) ==
  /\ ~showModal
  /\ d # dateFrom
  /\ dateFrom' = d
  /\ filterEffect(searchQuery, d, dateTo, sortOrder)
  /\ UNCHANGED <<searchQuery, dateTo, sortOrder>>

\* onChange of the end date input.
setDateTo(d) ==
  /\ ~showModal
  /\ d # dateTo
  /\ dateTo' = d
  /\ filterEffect(searchQuery, dateFrom, d, sortOrder)
  /\ UNCHANGED <<searchQuery, dateFrom, sortOrder>>

\* onChange of the sort select.
setSortOrder(o) ==
  /\ ~showModal
  /\ o # sortOrder
  /\ sortOrder' = o
  /\ filterEffect(searchQuery, dateFrom, dateTo, o)
  /\ UNCHANGED <<searchQuery, dateFrom, dateTo>>

\* What only the selection handlers leave alone.
selectFrame ==
  /\ last' = Last("other", NoAlert)
  /\ UNCHANGED <<store, keyGen, products, showModal, editingProduct, formData,
                 imageFile, pending, searchQuery, dateFrom, dateTo, sortOrder,
                 filteredProducts, download, imageRun>>

\* handleSelect(id, selected) from the checkbox of row i of the table; the
\* checkbox of a row with a falsy id calls nothing.
handleSelect(i, selected) ==
  /\ ~showModal
  /\ i \in 1..Len(filteredProducts)
  /\ filteredProducts[i].id # 0
  /\ selectedIds' = IF selected THEN selectedIds \cup {filteredProducts[i].id}
                    ELSE selectedIds \ {filteredProducts[i].id}
  /\ selectedIds' # selectedIds
  /\ selectFrame

\* A select-all that takes the ids of the whole list.
handleSelectAllProducts(selected) ==
  /\ ~showModal
  /\ selectedIds' = IF selected
                    THEN {products[i].id : i \in 1..Len(products)}
                    ELSE {}
  /\ selectedIds' # selectedIds
  /\ selectFrame

\* handleSelectAll(selected) from the checkbox of the table header.
handleSelectAll(selected) ==
  /\ ~showModal
  /\ selectedIds' = IF selected
                    THEN {filteredProducts[i].id : i \in 1..Len(filteredProducts)}
                    ELSE {}
  /\ selectedIds' # selectedIds
  /\ selectFrame

\* A bulk delete that deletes nothing when one of its deletes is rejected.
handleDeleteMultipleAtomic(failing) ==
  /\ ~showModal
  /\ selectedIds # {}
  /\ failing \subseteq selectedIds
  /\ IF failing = {}
     THEN /\ store' = {r \in store : r.id \notin selectedIds}
          /\ products' = ToArray(store')
          /\ last' = Last("deleteMultiple", NoAlert)
          /\ FilterEffect
     ELSE /\ last' = Last("deleteMultiple", AlertDeleteFailed)
          /\ UNCHANGED <<store, products>>
          /\ UNCHANGED listVars
  /\ UNCHANGED <<keyGen, showModal, editingProduct, formData, imageFile,
                 pending>>

\* handleDeleteMultiple with the confirm() answered OK. Promise.all starts
\* one db.products.delete per selected id, each in its own transaction;
\* failing are the ids whose delete the database rejects. With a rejection
\* the catch alerts once and neither the selection nor the list is touched.
handleDeleteMultiple(failing) ==
  /\ ~showModal
  /\ selectedIds # {}
  /\ failing \subseteq selectedIds
  /\ store' = {r \in store : r.id \notin selectedIds \ failing}
  /\ IF failing = {}
     THEN /\ products' = ToArray(store')
          /\ last' = Last("deleteMultiple", NoAlert)
          /\ FilterEffect
     ELSE /\ last' = Last("deleteMultiple", AlertDeleteFailed)
          /\ UNCHANGED products
          /\ UNCHANGED listVars
  /\ UNCHANGED <<keyGen, showModal, editingProduct, formData, imageFile,
                 pending>>

-----------------------------------------------------------------------------
(* Home: the export buttons and the file they download *)

\* What the exports leave alone: they read the database and write a file.
exportFrame ==
  UNCHANGED <<store, keyGen, products, showModal, editingProduct, formData,
              imageFile, pending, searchQuery, dateFrom, dateTo, sortOrder,
              selectedIds, filteredProducts, imageRun>>

\* An export that writes the rows the table shows.
handleExportJSONFiltered ==
  /\ ~showModal
  /\ download' = [kind |-> "json",
                  items |-> [i \in 1..Len(filteredProducts) |->
                               exportItem(filteredProducts[i])],
                  text |-> <<>>]
  /\ last' = Last("exportJSON", NoAlert)
  /\ exportFrame

\* handleExportJSON: the array of objects serialised into the download.
handleExportJSON ==
  /\ ~showModal
  /\ download' = [kind |-> "json", items |-> exportData(store), text |-> <<>>]
  /\ last' = Last("exportJSON", NoAlert)
  /\ exportFrame

\* handleExportCSV in a browser whose default locale is locale.
handleExportCSV(locale) ==
  /\ ~showModal
  /\ download' = [kind |-> "csv", items |-> <<>>,
                  text |-> csvText(store, locale)]
  /\ last' = Last("exportCSV", NoAlert)
  /\ exportFrame

\* handleImportJSON on the file the JSON export has downloaded.
importDownload(mode) ==
  /\ download.kind = "json"
  /\ importFile([json |-> "array", items |-> download.items], mode)

-----------------------------------------------------------------------------

\* The steps of the program with the user's inputs drawn from the given
\* sets: the texts typed into the form, the photos attached, the files
\* imported, the dates picked in the form.
Step(inputs, photos, files, dates) ==
  \/ handleAddNew
  \/ \E i \in 1..MaxId + 1 : handleEdit(i)
  \/ handleCloseModal
  \/ \E d \in dates : changeDate(d)
  \/ \E d \in Dates : generateProductCode(d)
  \/ \E in \in inputs \cup {Fields(formData)}, file \in photos \cup {imageFile} :
       handleSubmit(in, file)
  \/ \E i \in 1..MaxId + 1 : handleDelete(i)
  \/ \E f \in files, mode \in BOOLEAN : handleImportJSON(f, mode)

InputB == [name |-> "B", price |-> <<"8", "0">>, quantity |-> <<>>,
           currency |-> "JPY"]

\* The add and edit flows on stores whose codes the import has made
\* negative, missing or non-numeric.
NextAlloc == Step({InputB}, {}, {8, 9, 10}, Dates)

SpecAlloc == Init /\ [][NextAlloc]_vars

\* Edits of records imported with a quantity, a currency, a photo and
\* another date.
NextEdit == Step({InputB}, {}, {11}, {Today})

SpecEdit == Init /\ [][NextEdit]_vars

\* Every kind of import file.
Next == Step({InputB}, {}, 1..7, {Today})

Spec == Init /\ [][Next]_vars

\* The files SpecImport imports.
ImportFileIds == {12, 13}

\* Imports of items whose image is missing, a number, a string that is no
\* data URL or a data URL, and whose currency is missing, empty or given.
NextImport == Step({InputB}, {}, ImportFileIds, {Today})

SpecImport == Init /\ [][NextImport]_vars

-----------------------------------------------------------------------------
(* The list: filter, sort, selection and deletes on a database that already
   holds records when the page mounts *)

\* What the records of these databases hold: two of them share the date,
\* two the price.
ListContents ==
  { [purchasedAt |-> "2024-01-05", productCode |-> <<"0", "0", "1">>,
     name |-> "A", price |-> 80, quantity |-> {}, currency |-> "JPY",
     image |-> {}],
    [purchasedAt |-> "2024-01-06", productCode |-> <<"0", "0", "2">>,
     name |-> "ab", price |-> 1500, quantity |-> {}, currency |-> "JPY",
     image |-> {}],
    [purchasedAt |-> "2024-01-05", productCode |-> <<"0", "0", "2">>,
     name |-> "B", price |-> 1500, quantity |-> {}, currency |-> "JPY",
     image |-> {}] }

ListStores ==
  {st \in SUBSET {WithId(c, i) : c \in ListContents, i \in 1..MaxRows} :
     \A r1, r2 \in st : r1.id = r2.id => r1 = r2}

\* The page mounted on a database holding st: loadProducts has read it and
\* the filter effect has run.
MountedPage(st, gen) ==
  /\ store = st
  /\ keyGen = gen
  /\ products = ToArray(st)
  /\ showModal = FALSE
  /\ editingProduct = {}
  /\ formData = BlankForm
  /\ imageFile = ""
  /\ pending = {Today}
  /\ last = Last("other", NoAlert)
  /\ searchQuery = <<>>
  /\ dateFrom = ""
  /\ dateTo = ""
  /\ sortOrder = "purchasedAtDesc"
  /\ selectedIds = {}
  /\ filteredProducts = apply(ToArray(st), <<>>, "", "", "purchasedAtDesc")
  /\ download = NoDownload

Mounted(st, gen) == MountedPage(st, gen) /\ imageRun = NoRun

InitList == \E st \in ListStores : Mounted(st, MaxRows + 1)

\* The texts typed into the search input and the dates picked as bounds.
Queries == {<<>>, <<"B">>, <<"2">>}

FromDates == {"", "2024-01-06"}

ToDates == {"", "2024-01-05"}

\* Filtering, sorting and selecting with a database that rejects nothing.
NextList ==
  \/ \E q \in Queries : setSearchQuery(q)
  \/ \E d \in FromDates : setDateFrom(d)
  \/ \E d \in ToDates : setDateTo(d)
  \/ \E o \in SortOrders : setSortOrder(o)
  \/ \E i \in 1..MaxRows, selected \in BOOLEAN : handleSelect(i, selected)
  \/ \E selected \in BOOLEAN : handleSelectAll(selected)
  \/ \E i \in 1..MaxRows : handleDelete(i)
  \/ handleDeleteMultiple({})

SpecList == InitList /\ [][NextList]_vars

\* Selecting and deleting with a database that may reject deletes.
NextBulk ==
  \/ \E q \in {<<>>, <<"B">>} : setSearchQuery(q)
  \/ \E i \in 1..MaxRows, selected \in BOOLEAN : handleSelect(i, selected)
  \/ \E selected \in BOOLEAN : handleSelectAll(selected)
  \/ \E i \in 1..MaxRows : handleDelete(i)
  \/ \E failing \in SUBSET (1..MaxRows) : handleDeleteMultiple(failing)

SpecBulk == InitList /\ [][NextBulk]_vars

\* Selecting and deleting with a database whose list reads may reject.
NextLoad ==
  \/ \E q \in {<<>>, <<"B">>} : setSearchQuery(q)
  \/ \E i \in 1..MaxRows, selected \in BOOLEAN : handleSelect(i, selected)
  \/ \E i \in 1..MaxRows : handleDelete(i)
  \/ \E i \in 1..MaxRows : handleDeleteLoadRejected(i)

SpecLoad == InitList /\ [][NextLoad]_vars

-----------------------------------------------------------------------------
(* The codec: exports and the import of an exported file on a database that
   already holds records *)

\* Records of type Product as the database may hold them at mount: quantity
\* and currency are optional fields of the type, image may be a blob of any
\* type.
CodecContents ==
  { [purchasedAt |-> "2024-03-01", productCode |-> <<"0", "0", "1">>,
     name |-> "A\"B", price |-> 1500, quantity |-> {2}, currency |-> "USD",
     image |-> {[bytes |-> <<255, 216, 255, 224>>, type |-> "image/jpeg"]}],
    [purchasedAt |-> "2024-01-05", productCode |-> <<"0", "0", "2">>,
     name |-> "B", price |-> 80, quantity |-> {0}, currency |-> "JPY",
     image |-> {}],
    [purchasedAt |-> "2024-01-05", productCode |-> <<"0", "0", "2">>,
     name |-> "B", price |-> 80, quantity |-> {}, currency |-> "JPY",
     image |-> {}],
    [purchasedAt |-> "2024-01-06", productCode |-> <<"0", "0", "1">>,
     name |-> "A", price |-> 80, quantity |-> {}, currency |-> "",
     image |-> {[bytes |-> <<0>>, type |-> ""]}] }

CodecStores ==
  {st \in SUBSET {WithId(c, i) : c \in CodecContents, i \in 1..MaxId} :
     \A r1, r2 \in st : r1.id = r2.id => r1 = r2}

\* The key generator of a table whose largest key so far is in st.
NextKey(st) == 1 + CHOOSE m \in Ids(st) \cup {0} : \A i \in Ids(st) : i <= m

InitCodec == \E st \in CodecStores : Mounted(st, NextKey(st))

\* Exporting under any filter and selection, and importing the export.
NextCodec ==
  \/ \E q \in {<<>>, <<"B">>} : setSearchQuery(q)
  \/ \E d \in FromDates : setDateFrom(d)
  \/ \E o \in {"purchasedAtDesc", "priceAsc"} : setSortOrder(o)
  \/ \E selected \in BOOLEAN : handleSelectAll(selected)
  \/ handleExportJSON
  \/ \E locale \in Locales : handleExportCSV(locale)
  \/ \E mode \in BOOLEAN : importDownload(mode)

SpecCodec == InitCodec /\ [][NextCodec]_vars

-----------------------------------------------------------------------------
(* Saving with photos *)

\* The photos attached: one that goes through, one the FileReader cannot
\* read, one that does not decode, one too thin to leave a pixel after the
\* resize, a HEIC picture and one heic2any rejects.
Photos ==
  {"photo.png", "unreadable.png", "corrupt.png", "sliver.png", "photo.heic",
   "broken.heic"}

\* Adds and edits with photos, and an import that fails after its first
\* item.
NextPhoto ==
  \/ handleAddNew
  \/ \E i \in 1..MaxId + 1 : handleEdit(i)
  \/ handleCloseModal
  \/ generateProductCode(Today)
  \/ \E in \in {InputB, Fields(formData)}, file \in Photos \cup {imageFile} :
       handleSubmit(in, file)
  \/ \E i \in 1..MaxId + 1 : handleDelete(i)
  \/ \E mode \in BOOLEAN : handleImportJSON(7, mode)

SpecPhoto == Init /\ [][NextPhoto]_vars

-----------------------------------------------------------------------------
(* The image pipeline on its own: one file in, one run out *)

\* The widths and heights of the pictures, around MAX_SIZE.
Sizes == {1, 600, 1199, 1200, 1201, 1800, 2400, 2401}

\* The files: PNG and HEIC pictures of every size on which the browser
\* fails at no step or at one.
PipelineFiles ==
  {ImageFile(k[1], k[2], w, h, faults) :
     k \in {<<"image/png", "png">>, <<"", "heic">>},
     w \in Sizes, h \in Sizes,
     faults \in {{}, {"heic"}, {"read"}, {"decode"}, {"context"}, {"encode"},
                 {"normalize"}}}

InitPipeline ==
  \E f \in PipelineFiles :
    MountedPage({}, 1) /\ imageRun = [file |-> {f}, result |-> {}]

\* resizeAndCompressImage runs on the file.
runPipeline ==
  /\ imageRun.file # {}
  /\ imageRun.result = {}
  /\ imageRun' = [imageRun EXCEPT
                    !.result = {processImage(CHOOSE f \in imageRun.file : TRUE)}]
  /\ UNCHANGED <<store, keyGen, products, showModal, editingProduct, formData,
                 imageFile, pending, last, searchQuery, dateFrom, dateTo,
                 sortOrder, selectedIds, filteredProducts, download>>

NextPipeline == runPipeline

SpecPipeline == InitPipeline /\ [][NextPipeline]_vars

-----------------------------------------------------------------------------
(* Claims about the product code allocator *)

\* The integer value of a stored code: what parseInt reads, 0 when it reads
\* no number.
CodeValue(r) == OrZero(parseInt(r.productCode))

SetMax(S) == CHOOSE m \in S : \A x \in S : x <= m

Code001 == <<"0", "0", "1">>

C4_NoAllocationWhileEditing ==
  [][\A d \in Dates :
       editingProduct # {} /\ generateProductCode(d) =>
         formData'.productCode = formData.productCode]_vars

IsThreeDigits(code) ==
  /\ Len(code) = 3
  /\ \A i \in 1..Len(code) : IsDigit(code[i])

\* C5 as stated: every stored record has a productCode of exactly 3 digits.
C5_CodesAreThreeDigits == \A r \in store : IsThreeDigits(r.productCode)

-----------------------------------------------------------------------------
(* Claims about saving an edit *)

EditingId == (CHOOSE p \in editingProduct : TRUE).id

Typed == FieldInputs \cup {Fields(formData)}

Chosen == ImageFiles \cup {""}

\* C2 as stated: a submitted edit whose id is not in the store ends in the
\* error alert with the form still open, and leaves the store unchanged.
C2_VanishedEditFails ==
  [][\A in \in Typed, file \in Chosen :
       (/\ last'.op = "submitEdit"
        /\ EditingId \notin Ids(store)
        /\ handleSubmit(in, file))
         => /\ last'.alert = AlertSaveFailed
            /\ showModal'
            /\ store' = store]_vars

\* C3: a successful edit of a stored id leaves under that id exactly the
\* submitted date, normalized code, name, price, quantity (absent when the
\* quantity text is empty), currency and image, and changes no other record.
C3_EditReplacesRecord ==
  [][\A in \in Typed, file \in Chosen :
       (/\ last' = Last("submitEdit", NoAlert)
        /\ EditingId \in Ids(store)
        /\ handleSubmit(in, file))
         => LET new == Get(store', EditingId)
            IN  /\ Ids(store') = Ids(store)
                /\ Cardinality(store') = Cardinality(store)
                /\ new.purchasedAt = formData.purchasedAt
                /\ new.productCode = normalizedProductCode(formData.productCode)
                /\ new.name = in.name
                /\ new.price = parseFloat(in.price).val
                /\ new.quantity = IF in.quantity = <<>> THEN {}
                                  ELSE {parseInt(in.quantity).val}
                /\ new.currency = in.currency
                /\ new.image = IF file # ""
                               THEN resizeAndCompressImage(file).blob
                               ELSE (CHOOSE p \in editingProduct : TRUE).image
                /\ \A r \in store : r.id # EditingId => r \in store']_vars

\* C3 witness: after a saved edit two records are stored, one of them without
\* quantity and with the photo it had before.
C3_Witness ==
  /\ last = Last("submitEdit", NoAlert)
  /\ Cardinality(store) = 2
  /\ \E r \in store : r.name = "B" /\ r.quantity = {} /\ r.image # {}

-----------------------------------------------------------------------------
(* Claims about ids and the import *)

UniqueIds(st) == \A r1, r2 \in st : r1.id = r2.id => r1 = r2

Content(r) ==
  [purchasedAt |-> r.purchasedAt, productCode |-> r.productCode,
   name |-> r.name, price |-> r.price, quantity |-> r.quantity,
   currency |-> r.currency, image |-> r.image]

\* The files Spec imports.
FileIds == 1..7

\* C6: after every step no two stored records share an id; a saved add
\* stores one more record under an id no record had, and so does every add
\* of an append import; after an overwrite import the ids are distinct too.
C6_UniqueFreshIds ==
  [][/\ UniqueIds(store')
     /\ Cardinality(Ids(store')) = Cardinality(store')
     /\ last' = Last("submitAdd", NoAlert) =>
          \E r \in store' : r.id \notin Ids(store) /\ store' = store \cup {r}
     /\ (last'.op = "import" /\ \E f \in FileIds : handleImportJSON(f, FALSE)) =>
          \A r \in store' \ store : r.id \notin Ids(store)]_vars

\* C6 witness: an import has stored a record of the file under its id 1 and
\* a later add from the form got id 2.
C6_Witness ==
  /\ last = Last("submitAdd", NoAlert)
  /\ \E r \in store : r.id = 1 /\ Content(r) = productData(ItemA)
  /\ \E r \in store : r.id = 2 /\ r.name = "B"

\* C7: the import of a file whose JSON value is not an array alerts the
\* invalid-format message and changes neither the store nor the list.
C7_NonArrayRejected ==
  [][\A f \in FileIds, mode \in BOOLEAN :
       (/\ last'.op = "import"
        /\ ImportFiles[f].json = "object"
        /\ handleImportJSON(f, mode))
         => /\ store' = store
            /\ keyGen' = keyGen
            /\ products' = products
            /\ last'.alert = AlertInvalidJson]_vars

\* C7 witness: the invalid-format alert is up and the store holds records.
C7_Witness ==
  /\ last = Last("import", AlertInvalidJson)
  /\ store # {}

\* C8 as stated: after a successful overwrite import the store holds one
\* record per item and every item with an id field, 0 included, is stored
\* under that id.
C8_OverwriteKeepsEveryId ==
  [][\A f \in FileIds :
       last' = Last("import", AlertImportDone) /\ handleImportJSON(f, TRUE)
         => LET items == ImportFiles[f].items
            IN  /\ Cardinality(store') = Len(items)
                /\ \A j \in 1..Len(items) :
                     items[j].id # {} =>
                       \E r \in store' : /\ {r.id} = items[j].id
                                         /\ Content(r) = productData(items[j])]_vars

\* C9: a successful append import of N items keeps every stored record,
\* adds N records holding the items' data, and their ids are the next N
\* values of the key generator, none of them an id stored before.
C9_AppendKeepsAndAdds ==
  [][\A f \in FileIds :
       last' = Last("import", AlertImportDone) /\ handleImportJSON(f, FALSE)
         => LET items == ImportFiles[f].items
                n == Len(items)
                new == store' \ store
            IN  /\ store \subseteq store'
                /\ Cardinality(new) = n
                /\ Ids(new) = keyGen..(keyGen + n - 1)
                /\ Ids(new) \cap Ids(store) = {}
                /\ \A j \in 1..n :
                     \E r \in new : /\ r.id = keyGen + j - 1
                                    /\ Content(r) = productData(items[j])]_vars

\* C9 witness: the record of the file is stored twice, under ids 1 and 2,
\* though the file names id 1.
C9_Witness ==
  /\ last = Last("import", AlertImportDone)
  /\ Cardinality(store) = 2
  /\ \A r \in store : Content(r) = productData(ItemA)

\* C10: when an add of an import rejects at item k, the failure alert is
\* shown, the k-1 items before it are stored on top of the records the
\* import started from (none in overwrite mode), nothing else is added and
\* the list is not reloaded.
C10_FailedImportIsPartial ==
  [][\A f \in FileIds, mode \in BOOLEAN :
       (/\ last'.op = "import"
        /\ last'.alert # AlertImportDone
        /\ ImportFiles[f].json = "array"
        /\ handleImportJSON(f, mode))
         => LET items == ImportFiles[f].items
                base == IF mode THEN {} ELSE store
                added == store' \ base
            IN  /\ last'.alert = AlertImportFailed
                /\ base \subseteq store'
                /\ products' = products
                /\ \E k \in 1..Len(items) :
                     /\ Cardinality(added) = k - 1
                     /\ \A j \in 1..(k - 1) :
                          \E r \in added : Content(r) = productData(items[j])
                     /\ \/ fetchFails(items[k])
                        \/ mode /\ items[k].id \subseteq Ids(store')]_vars

\* C10 witness: the failure alert is up after an import that stored its
\* first item, and the list still shows what it showed before.
C10_Witness ==
  /\ last = Last("import", AlertImportFailed)
  /\ store # {}
  /\ products # ToArray(store)

-----------------------------------------------------------------------------
(* Claims about the import and export codec *)

\* The record r holds the date, code, name, price and quantity of the item.
HoldsItem(r, item) ==
  /\ r.purchasedAt = item.purchasedAt
  /\ r.productCode = item.productCode
  /\ r.name = item.name
  /\ r.price = item.price
  /\ r.quantity = item.quantity

\* The image C11 states for an item: the decoded blob of a string that
\* starts with "data:", null for everything else.
StatedImage(item) ==
  IF item.image.type = "string" /\ item.image.prefix = "data:"
  THEN {[bytes |-> base64Decode(item.image.body), type |-> item.image.mime]}
  ELSE {}

\* The records a completed import of file f in the given mode has added.
Imported(f, mode) == store' \ (IF mode THEN {} ELSE store)

\* C11 as stated: every item of a completed import is stored with the
\* decoded blob or null as its image, and with its own currency when the
\* item has a currency property, JPY when it has none.
C11_ImageAndCurrency ==
  [][\A f \in ImportFileIds, mode \in BOOLEAN :
       last' = Last("import", AlertImportDone) /\ handleImportJSON(f, mode)
         => \A j \in 1..Len(ImportFiles[f].items) :
              LET item == ImportFiles[f].items[j]
              IN  \E r \in Imported(f, mode) :
                    /\ HoldsItem(r, item)
                    /\ r.image = StatedImage(item)
                    /\ {r.currency} = IF item.currency = {} THEN {"JPY"}
                                      ELSE item.currency]_vars

\* C11 amended: the currency stored is the item's when the item has a
\* non-empty one, and JPY when it is missing or empty.
C11_ImageAndNonEmptyCurrency ==
  [][\A f \in ImportFileIds, mode \in BOOLEAN :
       last' = Last("import", AlertImportDone) /\ handleImportJSON(f, mode)
         => \A j \in 1..Len(ImportFiles[f].items) :
              LET item == ImportFiles[f].items[j]
              IN  \E r \in Imported(f, mode) :
                    /\ HoldsItem(r, item)
                    /\ r.image = StatedImage(item)
                    /\ {r.currency} = IF item.currency \in {{}, {""}}
                                      THEN {"JPY"}
                                      ELSE item.currency]_vars

\* C11 witness: the store holds the record of a data URL item with the
\* three bytes of its base64 body /9j/ and its currency USD, next to a
\* record whose image is null.
C11_Witness ==
  /\ last = Last("import", AlertImportDone)
  /\ \E r \in store :
       /\ r.image = {[bytes |-> <<255, 216, 255>>, type |-> "image/jpeg"]}
       /\ r.currency = "USD"
  /\ \E r \in store : r.image = {} /\ r.currency = "JPY"

\* What the import in append mode makes of the JSON export of st.
roundTrip(st, gen) == importRun(st, gen, exportData(st), FALSE)

SameScalars(r, a) ==
  /\ a.purchasedAt = r.purchasedAt
  /\ a.productCode = r.productCode
  /\ a.name = r.name
  /\ a.price = r.price
  /\ a.quantity = r.quantity

SameBytes(r, a) ==
  /\ r.image = {} => a.image = {}
  /\ r.image # {} =>
       /\ a.image # {}
       /\ \A b \in r.image, c \in a.image : c.bytes = b.bytes

\* The file in the download is the JSON export of the store as it is now.
FreshBackup == download.kind = "json" /\ download.items = exportData(store)

IsPrefix(p, s) == Len(p) <= Len(s) /\ SubSeq(s, 1, Len(p)) = p

\* The pieces of text between the occurrences of sep.
RECURSIVE Split(_, _)
Split(text, sep) ==
  IF \A i \in 1..Len(text) : text[i] # sep THEN <<text>>
  ELSE LET k == CHOOSE i \in 1..Len(text) :
                  text[i] = sep /\ \A j \in 1..(i - 1) : text[j] # sep
       IN  <<SubSeq(text, 1, k - 1)>>
             \o Split(SubSeq(text, k + 1, Len(text)), sep)

\* C13: whatever the search text, the date range, the sort order and the
\* selection are, the JSON export holds one object per stored record, in key
\* order, with currency JPY for a record without currency, and the CSV
\* export holds the header line and one line per stored record.
C13_ExportsReadFullStore ==
  [][LET arr == ToArray(store)
     IN  /\ handleExportJSON =>
              /\ Len(download'.items) = Cardinality(store)
              /\ \A i \in 1..Len(arr) :
                   /\ download'.items[i].id = {arr[i].id}
                   /\ download'.items[i].name = arr[i].name
                   /\ arr[i].currency = "" =>
                        download'.items[i].currency = {"JPY"}
         /\ \A locale \in Locales :
              handleExportCSV(locale) =>
                LET lines == Split(download'.text, "\n")
                IN  /\ Len(lines) = 1 + Cardinality(store)
                    /\ \A i \in 1..Len(arr) :
                         IsPrefix(Chars[arr[i].purchasedAt] \o <<",">>
                                    \o arr[i].productCode \o <<",">>,
                                  lines[i + 1])]_vars

\* A JSON export of two records, one of them without currency, made while
\* the search shows one row and that row is selected.
C13_Witness ==
  /\ last = Last("exportJSON", NoAlert)
  /\ searchQuery # <<>>
  /\ Len(filteredProducts) = 1
  /\ selectedIds # {}
  /\ Cardinality(store) = 2
  /\ Len(download.items) = 2
  /\ download.items = exportData(store)
  /\ \E i \in 1..2 : ToArray(store)[i].currency = ""
                        /\ download.items[i].currency = {"JPY"}

\* The record of the CSV scenario and the row stated for it.
IsScenario(r) ==
  /\ r.purchasedAt = "2024-03-01"
  /\ r.productCode = <<"0", "0", "1">>
  /\ r.name = "A\"B"
  /\ r.quantity = {2}
  /\ r.price = 1500
  /\ r.currency = "USD"

ScenarioRow ==
  << "2", "0", "2", "4", "-", "0", "3", "-", "0", "1", ",",
     "0", "0", "1", ",",
     "\"", "A", "\"", "\"", "B", "\"", ",",
     "2", ",",
     "\"", "1", ",", "5", "0", "0", "\"", ",",
     "U", "S", "D" >>

ScenarioRowDotted ==
  << "2", "0", "2", "4", "-", "0", "3", "-", "0", "1", ",",
     "0", "0", "1", ",",
     "\"", "A", "\"", "\"", "B", "\"", ",",
     "2", ",",
     "\"", "1", ".", "5", "0", "0", "\"", ",",
     "U", "S", "D" >>

HeaderLine ==
  << "[BOM]", "[purchase date]", ",", "[product code]", ",", "[name]", ",",
     "[quantity]", ",", "[price]", ",", "[currency]" >>

Quoted(s) == <<"\"">> \o s \o <<"\"">>

\* The file starts with the marker and the header line, has one line per
\* record, and the line of a record whose name has no quote and whose
\* price is below 1000 has the six cells in the stated order.
CsvShape(text, arr) ==
  LET lines == Split(text, "\n")
  IN  /\ lines[1] = HeaderLine
      /\ Len(lines) = 1 + Len(arr)
      /\ \A i \in 1..Len(arr) :
           ~IsScenario(arr[i]) =>
             LET cells == Split(lines[i + 1], ",")
             IN  /\ Len(cells) = 6
                 /\ cells[1] = Chars[arr[i].purchasedAt]
                 /\ cells[2] = arr[i].productCode
                 /\ cells[3] = Quoted(Chars[arr[i].name])
                 /\ cells[5] = Quoted(NatToString(arr[i].price))
                 /\ cells[6] = Chars[IF arr[i].currency = "" THEN "JPY"
                                     ELSE arr[i].currency]

\* C14 as stated: the CSV export writes the marker, the header, one row per
\* record in the stated column order, and for the scenario record the row
\* 2024-03-01,001,"A""B",2,"1,500",USD.
C14_CsvFormat ==
  [][\A locale \in Locales :
       handleExportCSV(locale) =>
         LET arr == ToArray(store)
         IN  /\ CsvShape(download'.text, arr)
             /\ \A i \in 1..Len(arr) :
                  IsScenario(arr[i]) =>
                    Split(download'.text, "\n")[i + 1] = ScenarioRow]_vars

\* C14 amended: the scenario row is the stated one in a browser whose
\* locale groups thousands with a comma; in a locale that groups with a
\* dot the price cell is "1.500".
C14_CsvFormatInLocale ==
  [][\A locale \in Locales :
       handleExportCSV(locale) =>
         LET arr == ToArray(store)
         IN  /\ CsvShape(download'.text, arr)
             /\ \A i \in 1..Len(arr) :
                  IsScenario(arr[i]) =>
                    Split(download'.text, "\n")[i + 1] =
                      IF locale = "ja-JP" THEN ScenarioRow
                      ELSE ScenarioRowDotted]_vars

\* A CSV export of the scenario record in a comma-grouping locale.
C14_Witness ==
  /\ last = Last("exportCSV", NoAlert)
  /\ download.kind = "csv"
  /\ \E i \in 1..Cardinality(store) :
       /\ IsScenario(ToArray(store)[i])
       /\ Split(download.text, "\n")[i + 1] = ScenarioRow

\* Two records equal except that zero has quantity 0 and none has no
\* quantity.
ZeroAndAbsent(zero, none) ==
  /\ zero.quantity = {0}
  /\ none.quantity = {}
  /\ [zero EXCEPT !.id = 0, !.quantity = {}] = [none EXCEPT !.id = 0]

\* C15: the exports write different things for two records that differ
\* only in that one has quantity 0 and the other has no quantity: the JSON
\* objects differ in their quantity, the CSV rows differ, and the import of
\* the JSON export stores the quantities as they were.
C15_ZeroDistinctFromAbsent ==
  [][LET arr == ToArray(store)
     IN  \A i, j \in 1..Len(arr) :
           ZeroAndAbsent(arr[i], arr[j]) =>
             /\ handleExportJSON =>
                  /\ download'.items[i].quantity = {0}
                  /\ download'.items[j].quantity = {}
             /\ FreshBackup /\ importDownload(TRUE) =>
                  \E zero, none \in store' : ZeroAndAbsent(zero, none)
             /\ \A locale \in Locales :
                  handleExportCSV(locale) =>
                    Split(download'.text, "\n")[i + 1]
                      # Split(download'.text, "\n")[j + 1]]_vars

-----------------------------------------------------------------------------
(* Claims about the filter, the sort and the selection *)

Range(list) == {list[i] : i \in 1..Len(list)}

\* The position of a record in a list that holds it once.
IndexOf(list, r) == CHOOSE i \in 1..Len(list) : list[i] = r

IsSubstring(q, s) == \E i, j \in 0..Len(s) : i <= j /\ SubSeq(s, i + 1, j) = q

\* The condition of C16 on a record.
Qualifies(r) ==
  /\ \/ searchQuery = <<>>
     \/ IsSubstring(toLowerCase(searchQuery), toLowerCase(r.productCode))
     \/ IsSubstring(toLowerCase(searchQuery), toLowerCase(Chars[r.name]))
  /\ dateFrom = "" \/ compareStrings(Chars[r.purchasedAt], Chars[dateFrom]) >= 0
  /\ dateTo = "" \/ compareStrings(Chars[r.purchasedAt], Chars[dateTo]) <= 0

\* C16: the table shows exactly the records of the loaded list that match
\* the search text (case-insensitively, in productCode or name) and lie
\* within the inclusive date bounds, each of them once.
C16_FilterExact ==
  /\ Range(filteredProducts) = {r \in Range(products) : Qualifies(r)}
  /\ Len(filteredProducts) = Cardinality(Range(filteredProducts))

\* C16 witness: of three loaded records two match the search B by their
\* names, one of these lies after the end date, and only the other is shown.
C16_Witness ==
  /\ searchQuery = <<"B">>
  /\ dateTo = "2024-01-05"
  /\ Len(products) = 3
  /\ {r.name : r \in Range(products)} = {"A", "ab", "B"}
  /\ {r.name : r \in Range(filteredProducts)} = {"B"}

\* The sort key of C17 puts a before b, or ties them.
KeyBefore(a, b, order) ==
  CASE order = "purchasedAtDesc" ->
         compareStrings(Chars[a.purchasedAt], Chars[b.purchasedAt]) > 0
    [] order = "priceAsc" -> a.price < b.price
    [] order = "priceDesc" -> a.price > b.price

KeyTie(a, b, order) == ~KeyBefore(a, b, order) /\ ~KeyBefore(b, a, order)

\* C17: the table is a permutation of the filtered records in the order of
\* the sort key, records that tie on the key keep the order of the loaded
\* list, an unknown sort order changes nothing, and without filters every
\* loaded record is shown.
C17_SortStable ==
  LET filtered == filterStep(products, searchQuery, dateFrom, dateTo)
  IN  /\ Range(filteredProducts) = Range(filtered)
      /\ Len(filteredProducts) = Len(filtered)
      /\ \A i, j \in 1..Len(filteredProducts) :
           i < j =>
             LET a == filteredProducts[i]
                 b == filteredProducts[j]
             IN  \/ KeyBefore(a, b, sortOrder)
                 \/ /\ KeyTie(a, b, sortOrder)
                    /\ IndexOf(products, a) < IndexOf(products, b)
      /\ sortStep(filtered, "unknown") = filtered
      /\ (searchQuery = <<>> /\ dateFrom = "" /\ dateTo = "") =>
           Range(filteredProducts) = Range(products)

\* C17 witness: three records sorted by price descending, the two that tie
\* ahead of the cheaper one that the loaded list has first.
C17_Witness ==
  /\ sortOrder = "priceDesc"
  /\ Len(filteredProducts) = 3
  /\ filteredProducts[1].price = filteredProducts[2].price
  /\ filteredProducts[1].id < filteredProducts[2].id
  /\ filteredProducts[3] = products[1]

\* C18: a step that changes the search text, the start date, the end date
\* or the sort order leaves no id selected.
C18_FilterChangeClearsSelection ==
  [][(\/ searchQuery' # searchQuery
      \/ dateFrom' # dateFrom
      \/ dateTo' # dateTo
      \/ sortOrder' # sortOrder) => selectedIds' = {}]_vars

\* C18 witness: a filter input has just changed, rows are shown and none is
\* selected.
C18_Witness ==
  /\ last.op = "filter"
  /\ searchQuery # <<>>
  /\ filteredProducts # <<>>
  /\ selectedIds = {}

-----------------------------------------------------------------------------
(* Claims about the deletes *)

\* C19: the delete of a row removes the record with the row's id and no
\* other; when the store has no record with that id the store stays as it
\* is; no alert is shown in either case.
C19_DeleteOnlyThatId ==
  [][\A i \in 1..MaxRows :
       last'.op = "delete" /\ handleDelete(i) =>
         LET id == filteredProducts[i].id
         IN  /\ id \notin Ids(store')
             /\ \A r \in store : r.id # id => r \in store'
             /\ store' \subseteq store
             /\ id \notin Ids(store) => store' = store
             /\ last'.alert = NoAlert]_vars

\* C19 witness: a delete has run and other records are still stored.
C19_Witness ==
  /\ last = Last("delete", NoAlert)
  /\ Cardinality(store) = 2

\* C20: in a bulk delete the records of the selected ids whose delete is
\* not rejected are removed, also when another delete is rejected; a
\* rejection shows the one failure alert; without rejection no record with
\* a selected id remains; unselected records are never touched.
C20_BulkDeleteIndependent ==
  [][\A failing \in SUBSET (1..MaxRows) :
       last'.op = "deleteMultiple" /\ handleDeleteMultiple(failing) =>
         /\ store' = {r \in store : r.id \notin selectedIds \ failing}
         /\ \A r \in store : r.id \notin selectedIds => r \in store'
         /\ failing # {} => last'.alert = AlertDeleteFailed
         /\ failing = {} => /\ last'.alert = NoAlert
                            /\ Ids(store') \cap selectedIds = {}]_vars

\* C20 witness: the failure alert is up, one selected id is gone from the
\* store and another selected id is still stored.
C20_Witness ==
  /\ last = Last("deleteMultiple", AlertDeleteFailed)
  /\ \E a, b \in selectedIds :
       /\ a \in Ids(Range(products)) /\ a \notin Ids(store)
       /\ b \in Ids(store)

-----------------------------------------------------------------------------
(* Claims about the image pipeline *)

\* The file of the run and the run, once the pipeline has run.
RunFile == CHOOSE f \in imageRun.file : TRUE

Run == CHOOSE r \in imageRun.result : TRUE

HasResized == imageRun.result # {} /\ \E i \in 1..Len(Run.steps) : Run.steps[i] = "resize"

\* C24: for every source size the longer side of the target is at most
\* 1200; a source whose longer side is at most 1200 keeps its size; a source
\* whose longer side is above 1200 gets the longer side 1200 and the shorter
\* side scaled by 1200 / longer side (to the whole number below), landscape,
\* portrait and square alike.
C24_ResizeWithinMax ==
  HasResized =>
    LET w == RunFile.width
        h == RunFile.height
        tw == Run.width
        th == Run.height
    IN  /\ tw <= 1200 /\ th <= 1200
        /\ (w <= 1200 /\ h <= 1200) => tw = w /\ th = h
        /\ (w > 1200 /\ w >= h) =>
             /\ tw = 1200
             /\ th * w <= h * 1200
             /\ h * 1200 < (th + 1) * w
        /\ (h > 1200 /\ h >= w) =>
             /\ th = 1200
             /\ tw * h <= w * 1200
             /\ w * 1200 < (tw + 1) * h

\* A portrait picture of 600 by 1201 has been resized to 599 by 1200.
C24_Witness ==
  /\ HasResized
  /\ Run.ok
  /\ RunFile.width = 600 /\ RunFile.height = 1201
  /\ Run.width = 599 /\ Run.height = 1200

\* Blobs of no, one and four bytes under no and two media types.
SomeBlobs ==
  {[bytes |-> b, type |-> t] :
     b \in {<<>>, <<0>>, <<255, 216, 255, 224>>},
     t \in {"", "image/jpeg", "image/png"}}

IsHeicInput(f) ==
  f.type \in {"image/heic", "image/heif"} \/ f.ext \in {"heic", "heif"}

\* C25: every successful run does the steps in the order HEIC conversion
\* and normalization (HEIC/HEIF input only), read, decode, resize,
\* orientation, JPEG encode, normalization; the blob it returns is the
\* normalized encoder output; normalization keeps bytes and media type, and
\* applied twice gives what it gives applied once.
C25_PipelineOrder ==
  /\ (imageRun.result # {} /\ Run.ok) =>
       /\ Run.steps =
            (IF IsHeicInput(RunFile) THEN <<"heic", "normalize">> ELSE <<>>)
              \o <<"read", "decode", "resize", "orientation", "encode",
                    "normalize">>
       /\ Run.blob = {normalizeBlobForIndexedDB(Jpeg)}
       /\ \A b \in Run.blob : b.bytes = Jpeg.bytes /\ b.type = "image/jpeg"
  /\ \A b \in SomeBlobs :
       /\ normalizeBlobForIndexedDB(b).bytes = b.bytes
       /\ normalizeBlobForIndexedDB(b).type = b.type
       /\ normalizeBlobForIndexedDB(normalizeBlobForIndexedDB(b))
            = normalizeBlobForIndexedDB(b)

\* A HEIC picture has gone through all eight steps.
C25_Witness ==
  /\ imageRun.result # {}
  /\ Run.ok
  /\ IsHeicInput(RunFile)
  /\ Len(Run.steps) = 8
  /\ Run.steps[1] = "heic"
  /\ Run.steps[8] = "normalize"

-----------------------------------------------------------------------------
(* Claims about saving with photos *)

PipelineFails(file) == file # "" /\ ~processImage(FileOf(file)).ok

\* C21: a submit whose photo the pipeline rejects, at whatever step, makes
\* no store call: store, key generator and list are unchanged, the form stays
\* open on the same product, and the save-failed alert is shown.
C21_FailedImageAbortsSave ==
  [][\A in \in FieldInputs \cup {Fields(formData)}, file \in Photos :
       (/\ last'.op \in {"submitAdd", "submitEdit"}
        /\ PipelineFails(file)
        /\ handleSubmit(in, file))
         => /\ store' = store
            /\ keyGen' = keyGen
            /\ products' = products
            /\ showModal'
            /\ editingProduct' = editingProduct
            /\ last'.alert = AlertSaveFailed]_vars

\* An edit of a stored record has been submitted with a photo the pipeline
\* rejects at the encode step, and the form is still open.
C21_Witness ==
  /\ last = Last("submitEdit", AlertSaveFailed)
  /\ imageFile = "sliver.png"
  /\ processImage(FileOf(imageFile)).mode = "encode"
  /\ showModal
  /\ editingProduct # {}
  /\ \E p \in editingProduct : p \in store

\* C26: two submits in a row whose photos fail in different modes show
\* different messages.
C26_DistinctMessages ==
  [][\A in \in FieldInputs \cup {Fields(formData)}, file \in Photos :
       (/\ last.alert = AlertSaveFailed
        /\ PipelineFails(imageFile)
        /\ PipelineFails(file)
        /\ processImage(FileOf(file)).mode
             # processImage(FileOf(imageFile)).mode
        /\ handleSubmit(in, file))
         => last'.alert # last.alert]_vars

\* C29: a successful edit submitted without a new photo leaves the stored
\* image of the edited record as it was.
C29_EditKeepsStoredImage ==
  [][\A in \in FieldInputs \cup {Fields(formData)} :
       (/\ editingProduct # {}
        /\ handleSubmit(in, "")
        /\ last'.alert = NoAlert)
         => \A p \in editingProduct :
              p.id \in Ids(store)
                => /\ p.id \in Ids(store')
                   /\ Get(store', p.id).image = Get(store, p.id).image]_vars

-----------------------------------------------------------------------------
(* Claims about the order of the allocator responses *)

\* The add form shows a date whose own query has been answered.
AnsweredAddForm ==
  showModal /\ editingProduct = {} /\ formData.purchasedAt \notin pending

\* C23: a date change leaves the queries in flight as they were; the
\* response for a date the add form no longer shows, arriving after the
\* response for the date it shows, puts the code computed for the old date
\* into the form and leaves the date; an add saved from the form stores a
\* record with the form's date and the code the form displays.
C23_StaleResponseOverwrites ==
  [][/\ \A d \in Dates : changeDate(d) => pending \subseteq pending'
     /\ \A d \in Dates :
          (AnsweredAddForm /\ d # formData.purchasedAt
             /\ generateProductCode(d))
            => /\ formData'.productCode = nextCode(store, d)
               /\ formData'.purchasedAt = formData.purchasedAt
     /\ \A in \in FieldInputs \cup {Fields(formData)} :
          (editingProduct = {} /\ formData.productCode # <<>>
             /\ handleSubmit(in, "") /\ last'.alert = NoAlert)
            => \E r \in store' \ store :
                 /\ r.purchasedAt = formData.purchasedAt
                 /\ r.productCode = formData.productCode]_vars

\* The add form is dated 2024-01-06, nothing is in flight, and it displays
\* the code of 2024-01-05, which is not the code of 2024-01-06.
C23_Witness ==
  /\ AnsweredAddForm
  /\ pending = {}
  /\ formData.purchasedAt = "2024-01-06"
  /\ formData.productCode = nextCode(store, "2024-01-05")
  /\ formData.productCode # nextCode(store, "2024-01-06")

-----------------------------------------------------------------------------
(* Claims about the list and the store *)

\* C27: whenever no handler is running, the in-memory list holds exactly
\* the records of the store, also after operations that failed partway.
C27_ListMatchesStore == products = ToArray(store)

-----------------------------------------------------------------------------
(* Claims about the selection *)

DisplayedIds == {filteredProducts[i].id : i \in 1..Len(filteredProducts)}

\* C28: in every state the selected ids are ids of the displayed list; a
\* bulk delete removes only records that are displayed and selected; a
\* select-all selects exactly the ids of the displayed list.
C28_SelectionIsDisplayed ==
  /\ [](selectedIds \subseteq DisplayedIds)
  /\ [][/\ \A failing \in SUBSET (1..MaxRows) :
            handleDeleteMultiple(failing)
              => {r.id : r \in store \ store'} \subseteq
                   selectedIds \cap DisplayedIds
        /\ handleSelectAll(TRUE) => selectedIds' = DisplayedIds]_vars

\* Under a search that hides a record of the list, every displayed row is
\* selected.
C28_Witness ==
  /\ searchQuery # <<>>
  /\ selectedIds # {}
  /\ selectedIds = DisplayedIds
  /\ Len(filteredProducts) < Len(products)
  /\ \E r \in store : r.id \notin selectedIds

-----------------------------------------------------------------------------
(* Claims about a list load that fails *)

\* C22: after a list load whose store read failed, the failure notice is
\* shown and the list and the displayed list are empty.
C22_FailedLoadEmptiesList ==
  last.alert = AlertLoadFailed => products = <<>> /\ filteredProducts = <<>>

====
